---------------------------- MODULE Spec2Model ----------------------------
(***************************************************************************)
(* A model of solana_vanity_address (src/src/main.rs): the pattern         *)
(* validator validate_find, the matcher matches_pattern / matches_char /   *)
(* matches_flexible, and the parallel search of main (one closure per      *)
(* thread index, racing on the AtomicBool `found`).                        *)
(*                                                                         *)
(* A byte / char is a one-character string; a &str or &[u8] is a sequence  *)
(* of them, indexed from 1 here and from 0 in the source.                  *)
(***************************************************************************)
EXTENDS Integers, Sequences, FiniteSets, TLC

VARIABLES
    \* ---- the program (main) ----
    args,            \* the parsed Args: find, threads, match_type, ...
    overflow_checks, \* the build: TRUE = debug (overflow panics), FALSE = release (wraps)
    found,           \* the AtomicBool of line 115
    pc,              \* per thread index: where its closure is
    keypair,         \* per thread index: the loop body's local `keypair` (line 118)
    ret,             \* per thread index: what its closure returned
    result,          \* main's `result` of line 116
    main_pc,         \* where main is
    stdout,          \* the result lines main printed (lines 135-143)
    \* ---- history of the run (not program state) ----
    stores,          \* per thread index: how many times it stored to `found`
    late,            \* per thread index: Keypair::new() calls made while `found` was set
    \* ---- matches_pattern applied to free inputs ----
    m_in,            \* [pubkey, pattern, case_sensitive]
    m_out,           \* <<match_type, flexible_chars>> -> outcome, once applied
    \* ---- validate_find applied to free inputs ----
    v_in,            \* the string given to validate_find
    v_out            \* its result, once applied

vars == <<args, overflow_checks, found, pc, keypair, ret, result, main_pc, stdout,
          stores, late, m_in, m_out, v_in, v_out>>

progVars == <<args, found, pc, keypair, ret, result, main_pc, stdout,
              stores, late>>

(***************************************************************************)
(* Option<T>                                                               *)
(***************************************************************************)
None == [tag |-> "None"]

Some(x) == [tag |-> "Some", val |-> x]

IsSome(o) == o.tag = "Some"

Rep(c, n) == [i \in 1..n |-> c]

(***************************************************************************)
(* validate_find                                                           *)
(***************************************************************************)
CHAR_LIMIT == 18

BASE58_SET ==
    <<"1","2","3","4","5","6","7","8","9",
      "A","B","C","D","E","F","G","H","J","K","L","M","N","P","Q","R","S","T",
      "U","V","W","X","Y","Z",
      "a","b","c","d","e","f","g","h","i","j","k","m","n","o","p","q","r","s",
      "t","u","v","w","x","y","z">>

\* BASE58_SET.contains(ch)
Base58Contains(ch) == \E i \in 1..Len(BASE58_SET) : BASE58_SET[i] = ch

\* The one non-ASCII char of the inputs: U+00E9, two bytes in UTF-8.
EAcute == "U+00E9"

\* len_utf8 of a char
Utf8Len(ch) == IF ch = EAcute THEN 2 ELSE 1

RECURSIVE StrLen(_)
\* s.len(): the length of a &str in bytes
StrLen(s) == IF s = <<>> THEN 0 ELSE Utf8Len(Head(s)) + StrLen(Tail(s))

RECURSIVE FirstInvalid(_, _)
\* the `for ch in s.chars()` loop from position i on: the first char outside
\* BASE58_SET, or None
FirstInvalid(s, i) ==
    IF i > Len(s) THEN None
    ELSE IF ~Base58Contains(s[i]) THEN Some(s[i])
    ELSE FirstInvalid(s, i + 1)

validate_find(s) ==
    IF StrLen(s) > CHAR_LIMIT THEN [tag |-> "Err", err |-> "too long"]
    ELSE LET bad == FirstInvalid(s, 1) IN
         IF IsSome(bad) THEN [tag |-> "Err", err |-> "invalid character", ch |-> bad.val]
         ELSE [tag |-> "Ok", val |-> s]

(***************************************************************************)
(* matches_char and matches_flexible                                       *)
(***************************************************************************)
AsciiUpper == <<"A","B","C","D","E","F","G","H","I","J","K","L","M",
                "N","O","P","Q","R","S","T","U","V","W","X","Y","Z">>

AsciiLower == <<"a","b","c","d","e","f","g","h","i","j","k","l","m",
                "n","o","p","q","r","s","t","u","v","w","x","y","z">>

\* u8::to_ascii_lowercase
to_ascii_lowercase(c) ==
    IF \E i \in 1..26 : AsciiUpper[i] = c
    THEN AsciiLower[CHOOSE i \in 1..26 : AsciiUpper[i] = c]
    ELSE c

\* u8::eq_ignore_ascii_case
eq_ignore_ascii_case(c, target) == to_ascii_lowercase(c) = to_ascii_lowercase(target)

matches_flexible(c, target) ==
    CASE target = "1" -> c \in {"1", "i", "L"}
      [] target = "2" -> c \in {"2", "z", "Z"}
      [] target = "3" -> c \in {"3", "E"}
      [] target = "4" -> c \in {"4", "A"}
      [] target = "5" -> c \in {"5", "s", "S"}
      [] target = "6" -> c \in {"6", "b", "G"}
      [] target = "7" -> c \in {"7", "T"}
      [] target = "8" -> c \in {"8", "B"}
      [] target = "9" -> c \in {"9", "g"}
      [] target = "a" -> c \in {"a", "A", "4"}
      [] target = "b" -> c \in {"b", "B", "6"}
      [] target = "c" -> c \in {"c", "C"}
      [] target = "d" -> c \in {"d", "D"}
      [] target = "e" -> c \in {"e", "E", "3"}
      [] target = "f" -> c \in {"f", "F"}
      [] target = "g" -> c \in {"g", "G", "6", "9"}
      [] target = "h" -> c \in {"h", "H"}
      [] target = "i" -> c \in {"i", "1"}
      [] target = "j" -> c \in {"j", "J"}
      [] target = "k" -> c \in {"k", "K"}
      [] target = "m" -> c \in {"m", "M"}
      [] target = "n" -> c \in {"n", "N"}
      [] target = "o" -> c \in {"o"}
      [] target = "p" -> c \in {"p", "P"}
      [] target = "q" -> c \in {"q", "Q"}
      [] target = "r" -> c \in {"r", "R"}
      [] target = "s" -> c \in {"s", "S", "5"}
      [] target = "t" -> c \in {"t", "T", "7"}
      [] target = "u" -> c \in {"u", "U"}
      [] target = "v" -> c \in {"v", "V"}
      [] target = "w" -> c \in {"w", "W"}
      [] target = "x" -> c \in {"x", "X"}
      [] target = "y" -> c \in {"y", "Y"}
      [] target = "z" -> c \in {"z", "Z", "2"}
      [] target = "A" -> c \in {"a", "A", "4"}
      [] target = "B" -> c \in {"b", "B", "6", "8"}
      [] target = "C" -> c \in {"c", "C"}
      [] target = "D" -> c \in {"d", "D"}
      [] target = "E" -> c \in {"e", "E", "3"}
      [] target = "F" -> c \in {"f", "F"}
      [] target = "G" -> c \in {"g", "G", "6", "9"}
      [] target = "H" -> c \in {"h", "H"}
      [] target = "J" -> c \in {"j", "J"}
      [] target = "K" -> c \in {"k", "K"}
      [] target = "L" -> c \in {"L", "1"}
      [] target = "M" -> c \in {"m", "M"}
      [] target = "N" -> c \in {"n", "N"}
      [] target = "P" -> c \in {"p", "P"}
      [] target = "Q" -> c \in {"q", "Q"}
      [] target = "R" -> c \in {"r", "R"}
      [] target = "S" -> c \in {"s", "S", "5"}
      [] target = "T" -> c \in {"t", "T", "7"}
      [] target = "U" -> c \in {"u", "U"}
      [] target = "V" -> c \in {"v", "V"}
      [] target = "W" -> c \in {"w", "W"}
      [] target = "X" -> c \in {"x", "X"}
      [] target = "Y" -> c \in {"y", "Y"}
      [] target = "Z" -> c \in {"z", "Z", "2"}
      [] OTHER -> eq_ignore_ascii_case(c, target)

\* A slip in the branch order: the case-sensitive branch compares ignoring case.
matches_char_swapped(c, target, case_sensitive, flexible) ==
    IF case_sensitive THEN eq_ignore_ascii_case(c, target)
    ELSE IF flexible THEN matches_flexible(c, target)
    ELSE c = target

matches_char(c, target, case_sensitive, flexible) ==
    IF case_sensitive THEN c = target
    ELSE IF flexible THEN matches_flexible(c, target)
    ELSE eq_ignore_ascii_case(c, target)

(***************************************************************************)
(* matches_pattern.  Its outcome is "true", "false", or "panic" (an index  *)
(* out of range, or an arithmetic overflow in a build that checks it).     *)
(***************************************************************************)
\* usize arithmetic wraps modulo 2^64 in a build without overflow checks.  TLC's
\* integers are 32 bits wide, so the modulus is 2^30 here: the lengths of the
\* model stay far below it, and a wrapped difference is out of range of every
\* slice under either modulus.
UsizeModulus == 2^30

\* a - b on usize: [ok, val]; not ok is the overflow panic of a checking build
usize_sub(a, b) ==
    IF a >= b THEN [ok |-> TRUE, val |-> a - b]
    ELSE IF overflow_checks THEN [ok |-> FALSE, val |-> 0]
    ELSE [ok |-> TRUE, val |-> (a - b) % UsizeModulus]

\* a + b on usize
usize_add(a, b) ==
    IF a + b < UsizeModulus THEN [ok |-> TRUE, val |-> a + b]
    ELSE IF overflow_checks THEN [ok |-> FALSE, val |-> 0]
    ELSE [ok |-> TRUE, val |-> (a + b) % UsizeModulus]

RECURSIVE CompareFrom(_, _, _, _, _, _)
\* The loop `for i in 0..pattern_len` from i on, comparing
\* pubkey[start_idx + i] with pattern[i]: "true" when every char matched,
\* "false" at the first mismatch, "panic" when the index leaves the slice.
CompareFrom(pubkey, pattern, start_idx, i, case_sensitive, flexible) ==
    IF i >= Len(pattern) THEN "true"
    ELSE LET idx == usize_add(start_idx, i) IN
         IF ~idx.ok \/ idx.val >= Len(pubkey) THEN "panic"
         ELSE IF ~matches_char(pubkey[idx.val + 1], pattern[i + 1],
                               case_sensitive, flexible)
              THEN "false"
              ELSE CompareFrom(pubkey, pattern, start_idx, i + 1,
                               case_sensitive, flexible)

\* The suffix comparison: start_idx = pubkey_len - pattern_len, then the loop.
CompareSuffix(pubkey, pattern, case_sensitive, flexible) ==
    LET start_idx == usize_sub(Len(pubkey), Len(pattern)) IN
    IF ~start_idx.ok THEN "panic"
    ELSE CompareFrom(pubkey, pattern, start_idx.val, 0, case_sensitive, flexible)

\* A slip in the Either arm: the suffix is never looked at.
matches_pattern_prefix_only(pubkey, pattern, match_type, case_sensitive, flexible_chars) ==
    LET flexible == IF case_sensitive THEN FALSE ELSE flexible_chars IN
    CASE match_type = "Prefix" ->
            CompareFrom(pubkey, pattern, 0, 0, case_sensitive, flexible)
      [] match_type = "Suffix" ->
            CompareSuffix(pubkey, pattern, case_sensitive, flexible)
      [] match_type = "Either" ->
            CompareFrom(pubkey, pattern, 0, 0, case_sensitive, flexible)

matches_pattern(pubkey, pattern, match_type, case_sensitive, flexible_chars) ==
    LET flexible == IF case_sensitive THEN FALSE ELSE flexible_chars IN
    CASE match_type = "Prefix" ->
            CompareFrom(pubkey, pattern, 0, 0, case_sensitive, flexible)
      [] match_type = "Suffix" ->
            CompareSuffix(pubkey, pattern, case_sensitive, flexible)
      [] match_type = "Either" ->
            LET prefix == CompareFrom(pubkey, pattern, 0, 0, case_sensitive, flexible) IN
            IF prefix = "panic" THEN "panic"
            ELSE IF prefix = "true" THEN "true"
            ELSE CompareSuffix(pubkey, pattern, case_sensitive, flexible)

MatchType == {"Prefix", "Suffix", "Either"}


(***************************************************************************)
(* Keypair::new(), keypair.pubkey().to_string()                            *)
(***************************************************************************)
\* The keypairs Keypair::new() may return in a run: a sample of the key space.
\* An address is the base-58 text of a 32-byte public key, 32 to 44 chars.
SampleKeypairs ==
    { [secret |-> "k1", pubkey |-> <<"9","m","B">> \o Rep("1", 26) \o <<"x","y","z">>],
      [secret |-> "k2", pubkey |-> <<"A","A","A">> \o Rep("1", 38) \o <<"9","m","B">>] }

\* keypair.pubkey().to_string().as_bytes()
pubkey_str(kp) == kp.pubkey

(***************************************************************************)
(* Args::parse(): the command lines the model runs                         *)
(***************************************************************************)
\* The -f values tried; validate_find decides which of them reach main.
SampleFinds ==
    { <<>>,
      <<"9","m","B">>,
      <<"g","m","b">>,
      <<"9","m","B">> \o Rep("1", CHAR_LIMIT - 3),
      <<"9","m","B">> \o Rep("1", CHAR_LIMIT - 2),
      <<"0">> }

\* The largest --threads tried (validate_threads: 1 <= threads <= available).
MaxThreads == 2

\* validate_threads, on a parsed number
validate_threads(threads, available_threads) ==
    IF threads = 0 THEN [tag |-> "Err", err |-> "at least 1"]
    ELSE IF threads > available_threads THEN [tag |-> "Err", err |-> "hardware threads"]
    ELSE [tag |-> "Ok", val |-> threads]

\* Every Args that Args::parse returns for the command lines tried.
ParsedArgs ==
    { a \in [find : SampleFinds, threads : 0..MaxThreads + 1, match_type : MatchType,
             case_sensitivity : BOOLEAN, flexible_chars : BOOLEAN] :
        /\ validate_find(a.find).tag = "Ok"
        /\ validate_threads(a.threads, MaxThreads).tag = "Ok" }

\* (0..args.threads): the indices the closure of find_map_any runs for
Indices == 0..(args.threads - 1)

(***************************************************************************)
(* main: the search                                                        *)
(***************************************************************************)
\* The cap of the history counter `late`.
LateCap == 2

Init ==
    /\ args \in ParsedArgs
    /\ overflow_checks \in BOOLEAN
    /\ found = FALSE
    /\ pc = [i \in Indices |-> "loop"]
    /\ keypair = [i \in Indices |-> None]
    /\ ret = [i \in Indices |-> None]
    /\ result = None
    /\ main_pc = "search"
    /\ stdout = <<>>
    /\ stores = [i \in Indices |-> 0]
    /\ late = [i \in Indices |-> 0]
    /\ m_in = None /\ m_out = None
    /\ v_in = <<>> /\ v_out = None

\* A slip: the loop condition is not re-read, the loop runs on whatever `found` is.
LoadIgnoringFlag(i) ==
    /\ main_pc = "search"
    /\ pc[i] = "loop"
    /\ pc' = [pc EXCEPT ![i] = "new"]
    /\ UNCHANGED <<args, overflow_checks, found, keypair, ret, result, main_pc, stdout,
                   stores, late, m_in, m_out, v_in, v_out>>

\* line 117: `while !found.load(Relaxed)`; line 132: `None` when the loop ends
Load(i) ==
    /\ main_pc = "search"
    /\ pc[i] = "loop"
    /\ IF found
       THEN /\ pc' = [pc EXCEPT ![i] = "done"]
            /\ ret' = [ret EXCEPT ![i] = None]
       ELSE /\ pc' = [pc EXCEPT ![i] = "new"]
            /\ UNCHANGED ret
    /\ UNCHANGED <<args, overflow_checks, found, keypair, result, main_pc, stdout,
                   stores, late, m_in, m_out, v_in, v_out>>

\* lines 118-119: Keypair::new() and its address
Generate(i) ==
    /\ main_pc = "search"
    /\ pc[i] = "new"
    /\ \E kp \in SampleKeypairs : keypair' = [keypair EXCEPT ![i] = Some(kp)]
    /\ late' = [late EXCEPT ![i] = IF found /\ @ < LateCap THEN @ + 1 ELSE @]
    /\ pc' = [pc EXCEPT ![i] = "match"]
    /\ UNCHANGED <<args, overflow_checks, found, ret, result, main_pc, stdout,
                   stores, m_in, m_out, v_in, v_out>>

\* the call of lines 121-127, on the worker's current keypair
MatchOutcome(i) ==
    matches_pattern(pubkey_str(keypair[i].val), args.find, args.match_type,
                    args.case_sensitivity, args.flexible_chars)

\* A slip: the condition of the `if` is negated.
MatchNegated(i) ==
    /\ main_pc = "search"
    /\ pc[i] = "match"
    /\ pc' = [pc EXCEPT ![i] = CASE MatchOutcome(i) = "false" -> "store"
                                 [] MatchOutcome(i) = "true" -> "loop"
                                 [] OTHER -> "panicked"]
    /\ keypair' = [keypair EXCEPT ![i] = IF MatchOutcome(i) = "false" THEN @ ELSE None]
    /\ UNCHANGED <<args, overflow_checks, found, ret, result, main_pc, stdout,
                   stores, late, m_in, m_out, v_in, v_out>>

\* lines 121-127 and 130-131: `if matches_pattern(...)`; without a match the
\* loop body ends and drops `keypair`; a panic unwinds the closure
Match(i) ==
    /\ main_pc = "search"
    /\ pc[i] = "match"
    /\ pc' = [pc EXCEPT ![i] = CASE MatchOutcome(i) = "true" -> "store"
                                 [] MatchOutcome(i) = "false" -> "loop"
                                 [] OTHER -> "panicked"]
    /\ keypair' = [keypair EXCEPT ![i] = IF MatchOutcome(i) = "true" THEN @ ELSE None]
    /\ UNCHANGED <<args, overflow_checks, found, ret, result, main_pc, stdout,
                   stores, late, m_in, m_out, v_in, v_out>>

\* A slip: the store flips the flag instead of setting it.
StoreToggles(i) ==
    /\ main_pc = "search"
    /\ pc[i] = "store"
    /\ found' = ~found
    /\ stores' = [stores EXCEPT ![i] = @ + 1]
    /\ ret' = [ret EXCEPT ![i] = keypair[i]]
    /\ keypair' = [keypair EXCEPT ![i] = None]
    /\ pc' = [pc EXCEPT ![i] = "done"]
    /\ UNCHANGED <<args, overflow_checks, result, main_pc, stdout,
                   late, m_in, m_out, v_in, v_out>>

\* lines 128-129: found.store(true, Relaxed); return Some(keypair), which moves
\* `keypair` into the closure's return value
Store(i) ==
    /\ main_pc = "search"
    /\ pc[i] = "store"
    /\ found' = TRUE
    /\ stores' = [stores EXCEPT ![i] = @ + 1]
    /\ ret' = [ret EXCEPT ![i] = keypair[i]]
    /\ keypair' = [keypair EXCEPT ![i] = None]
    /\ pc' = [pc EXCEPT ![i] = "done"]
    /\ UNCHANGED <<args, overflow_checks, result, main_pc, stdout,
                   late, m_in, m_out, v_in, v_out>>

\* A slip: only the closure of index 0 is looked at.
FindMapFirstOnly ==
    /\ main_pc = "search"
    /\ \A i \in Indices : pc[i] = "done"
    /\ result' = ret[0]
    /\ main_pc' = "report"
    /\ UNCHANGED <<args, overflow_checks, found, pc, keypair, ret, stdout,
                   stores, late, m_in, m_out, v_in, v_out>>

\* line 116: find_map_any returns, every closure having returned: any of the
\* Some values, or None when there is none
FindMapAny ==
    /\ main_pc = "search"
    /\ \A i \in Indices : pc[i] = "done"
    /\ IF \E i \in Indices : IsSome(ret[i])
       THEN \E i \in Indices : IsSome(ret[i]) /\ result' = ret[i]
       ELSE result' = None
    /\ main_pc' = "report"
    /\ UNCHANGED <<args, overflow_checks, found, pc, keypair, ret, stdout,
                   stores, late, m_in, m_out, v_in, v_out>>

\* A slip: the match on `result` falls through, and both lines are printed.
ReportBoth ==
    /\ main_pc = "report"
    /\ stdout' = stdout \o << [line |-> "Found address", keypair |-> result.val],
                              [line |-> "No matching keypair found"] >>
    /\ main_pc' = "done"
    /\ UNCHANGED <<args, overflow_checks, found, pc, keypair, ret, result,
                   stores, late, m_in, m_out, v_in, v_out>>

\* lines 135-143: the result is printed
Report ==
    /\ main_pc = "report"
    /\ stdout' = Append(stdout, IF IsSome(result)
                                THEN [line |-> "Found address", keypair |-> result.val]
                                ELSE [line |-> "No matching keypair found"])
    /\ main_pc' = "done"
    /\ UNCHANGED <<args, overflow_checks, found, pc, keypair, ret, result,
                   stores, late, m_in, m_out, v_in, v_out>>

Next ==
    \/ \E i \in Indices : Load(i)
    \/ \E i \in Indices : Generate(i)
    \/ \E i \in Indices : Match(i)
    \/ \E i \in Indices : Store(i)
    \/ FindMapAny
    \/ Report

Spec == Init /\ [][Next]_vars

\* The pool's threads are OS threads (lines 110-113) and main blocks in
\* find_map_any: while some closure or main can step, one of them does.
FairSpec == Spec /\ WF_vars(Next)

(***************************************************************************)
(* matches_pattern on free inputs                                          *)
(***************************************************************************)
\* The bytes the free inputs are made of.
MatchAlphabet == {"A", "a", "4", "L"}

MaxPubkeyLen == 2

MaxPatternLen == 3

SeqsUpTo(S, n) == UNION { [1..k -> S] : k \in 0..n }

InitMatch ==
    /\ m_in \in [pubkey : SeqsUpTo(MatchAlphabet, MaxPubkeyLen),
                 pattern : SeqsUpTo(MatchAlphabet, MaxPatternLen),
                 case_sensitive : BOOLEAN]
    /\ m_out = None
    /\ overflow_checks \in BOOLEAN
    /\ args = None /\ found = FALSE /\ pc = <<>> /\ keypair = <<>> /\ ret = <<>>
    /\ result = None /\ main_pc = "off" /\ stdout = <<>>
    /\ stores = <<>> /\ late = <<>>
    /\ v_in = <<>> /\ v_out = None

\* matches_pattern applied to the inputs, for each match type and flexible_chars
ApplyMatch ==
    /\ m_out = None
    /\ m_out' = Some([k \in MatchType \X BOOLEAN |->
                        matches_pattern(m_in.pubkey, m_in.pattern, k[1],
                                        m_in.case_sensitive, k[2])])
    /\ UNCHANGED <<m_in, overflow_checks, v_in, v_out>>
    /\ UNCHANGED progVars

NextMatch == ApplyMatch

SpecMatch == InitMatch /\ [][NextMatch]_vars

(***************************************************************************)
(* validate_find on free inputs                                            *)
(***************************************************************************)
\* The chars the free inputs are made of: base-58 chars, the four look-alikes
\* the alphabet leaves out, and a char of two bytes.
ValidateAlphabet == {"1", "z", "0", "O", "I", "l", EAcute}

MaxInputChars == CHAR_LIMIT + 1

\* strings of "1"s of every length up to MaxInputChars, with at most one
\* position holding a char of ValidateAlphabet
ValidateInputs ==
    UNION { { [i \in 1..n |-> IF i = p THEN c ELSE "1"] :
                p \in 0..n, c \in ValidateAlphabet } : n \in 0..MaxInputChars }

InitValidate ==
    /\ v_in \in ValidateInputs
    /\ v_out = None
    /\ overflow_checks = FALSE
    /\ args = None /\ found = FALSE /\ pc = <<>> /\ keypair = <<>> /\ ret = <<>>
    /\ result = None /\ main_pc = "off" /\ stdout = <<>>
    /\ stores = <<>> /\ late = <<>>
    /\ m_in = None /\ m_out = None

\* validate_find applied to the input
ApplyValidate ==
    /\ v_out = None
    /\ v_out' = Some(validate_find(v_in))
    /\ UNCHANGED <<v_in, overflow_checks, m_in, m_out>>
    /\ UNCHANGED progVars

NextValidate == ApplyValidate

SpecValidate == InitValidate /\ [][NextValidate]_vars

(***************************************************************************)
(* Properties of the search (Spec, FairSpec)                               *)
(***************************************************************************)
\* the closures that returned Some(keypair)
Yielders == { i \in Indices : IsSome(ret[i]) }

Finished == main_pc \in {"report", "done"}

\* C1: a run prints exactly one result; a Found result carries a keypair that one
\* of the closures returned, and when two or more closures matched in the same
\* run (each before it saw the flag the other set) the run still ends with one
\* Found result, the keypair of one of them.
C1_ExactlyOneResult ==
    /\ Len(stdout) <= 1
    /\ main_pc = "done" =>
          /\ Len(stdout) = 1
          /\ stdout[1].line = "Found address" =>
                \E i \in Yielders : stdout[1].keypair = ret[i].val
          /\ Cardinality(Yielders) >= 2 => stdout[1].line = "Found address"

\* C1's case: two closures matched, with different keypairs, and the run is over.
C1_Witness ==
    /\ main_pc = "done"
    /\ \E i, j \in Yielders : ret[i] # ret[j]

\* C2: a closure returns only the keypair it has just generated, and only when
\* the address of that keypair satisfies matches_pattern under the run's pattern,
\* match type, case sensitivity and flexible_chars; a Found result is a keypair
\* some closure of this run returned, so its address satisfies the predicate.
C2_FoundMatches ==
    /\ [][\A i \in Indices :
            ret'[i] # ret[i] =>
                /\ IsSome(keypair[i]) /\ ret'[i] = keypair[i]
                /\ MatchOutcome(i) = "true"]_vars
    /\ [](\A i \in Yielders :
            matches_pattern(pubkey_str(ret[i].val), args.find, args.match_type,
                            args.case_sensitivity, args.flexible_chars) = "true")
    /\ [](Finished /\ IsSome(result) => \E i \in Yielders : result = ret[i])
    /\ [](main_pc = "done" /\ stdout[1].line = "Found address" =>
            /\ stdout[1].keypair = result.val
            /\ matches_pattern(pubkey_str(stdout[1].keypair), args.find,
                               args.match_type, args.case_sensitivity,
                               args.flexible_chars) = "true")

\* C2's case: a run that ended Found under a pattern that some keypair of the
\* sample fails.
C2_Witness ==
    /\ main_pc = "done"
    /\ stdout[1].line = "Found address"
    /\ Len(args.find) > 0
    /\ \E kp \in SampleKeypairs :
          matches_pattern(pubkey_str(kp), args.find, args.match_type,
                          args.case_sensitivity, args.flexible_chars) = "false"

\* C3: when some worker's address matched and that worker set the flag, the run
\* ends Found, never NotFound, whatever the other closures returned; and nothing
\* outside the workers writes the flag, so no run ends NotFound.
C3_MatchedImpliesFound ==
    /\ Finished /\ (\E i \in Indices : stores[i] > 0) => IsSome(result)
    /\ Finished => IsSome(result)
    /\ main_pc = "done" => stdout[1].line = "Found address"

\* C3's case: closure 0 returned None, another closure matched, and the run
\* ended Found.
C3_Witness ==
    /\ main_pc = "done"
    /\ ~IsSome(ret[0])
    /\ \E i \in Indices : stores[i] > 0 /\ IsSome(ret[i])
    /\ stdout[1].line = "Found address"

\* C9: once the flag is true a worker that checks it leaves its loop; a worker
\* calls the generator at most once while the flag is true (the iteration it was
\* in); and with every thread scheduled, all closures eventually return.
C9_StopWithinOneIteration ==
    /\ [][\A i \in Indices :
            (found /\ pc[i] = "loop" /\ pc'[i] # "loop") => pc'[i] = "done"]_vars
    /\ [](\A i \in Indices : late[i] <= 1)
    /\ (found ~> (\A i \in Indices : pc[i] = "done"))

\* C9's case: a worker generated once more after the flag was set, and every
\* closure has returned.
C9_Witness ==
    /\ found
    /\ \E i \in Indices : late[i] = 1
    /\ \A i \in Indices : pc[i] = "done"

\* C10 as stated: at most one worker ever stores to the flag.
C10_AtMostOneStore == Cardinality({ i \in Indices : stores[i] > 0 }) <= 1

\* C10, amended: the flag starts false and never goes from true back to false;
\* every store writes true and is made by a worker whose own address matched, at
\* most once per worker; the flag is true exactly when some worker has stored.
C10_MonotoneLatch ==
    /\ found = FALSE
    /\ [][/\ found => found'
          /\ \A i \in Indices :
                stores'[i] # stores[i] =>
                    /\ pc[i] = "store" /\ MatchOutcome(i) = "true"
                    /\ stores'[i] = stores[i] + 1
                    /\ found']_vars
    /\ [](\A i \in Indices : stores[i] <= 1)
    /\ [](found <=> \E i \in Indices : stores[i] > 0)

\* C10's case: two workers have each stored to the flag.
C10_Witness ==
    /\ found
    /\ Cardinality({ i \in Indices : stores[i] = 1 }) >= 2

(***************************************************************************)
(* Properties of matches_pattern (SpecMatch)                               *)
(***************************************************************************)
Applied == IsSome(m_out)

PatternFits == Len(m_in.pattern) <= Len(m_in.pubkey)

\* the first / last Len(pattern) bytes of the address
PrefixSlice == SubSeq(m_in.pubkey, 1, Len(m_in.pattern))

SuffixSlice ==
    SubSeq(m_in.pubkey, Len(m_in.pubkey) - Len(m_in.pattern) + 1, Len(m_in.pubkey))

\* C5 as stated: with a pattern longer than the address, matches_pattern returns
\* false for every match type and option, and never faults.
C5_LongPatternIsFalse ==
    Applied /\ ~PatternFits =>
        \A k \in MatchType \X BOOLEAN : m_out.val[k] = "false"

\* C6: with len(P) <= len(A), Either matches iff Prefix matches or Suffix
\* matches, under the same case_sensitive and flexible_chars.
C6_EitherIsPrefixOrSuffix ==
    Applied /\ PatternFits =>
        \A fl \in BOOLEAN :
            (m_out.val[<<"Either", fl>>] = "true")
              <=> \/ m_out.val[<<"Prefix", fl>>] = "true"
                  \/ m_out.val[<<"Suffix", fl>>] = "true"

\* C6's case: Either matched through the suffix alone.
C6_Witness ==
    /\ Applied /\ PatternFits
    /\ m_out.val[<<"Prefix", TRUE>>] = "false"
    /\ m_out.val[<<"Suffix", TRUE>>] = "true"
    /\ m_out.val[<<"Either", TRUE>>] = "true"

\* C7: with case_sensitive = true and len(P) <= len(A), flexible_chars changes
\* nothing, and the outcome is the byte-for-byte comparison of the selected
\* slice of the address with the pattern.
C7_CaseSensitiveIgnoresFlexible ==
    Applied /\ PatternFits /\ m_in.case_sensitive =>
        /\ \A mt \in MatchType : m_out.val[<<mt, TRUE>>] = m_out.val[<<mt, FALSE>>]
        /\ m_out.val[<<"Prefix", TRUE>>] \in {"true", "false"}
        /\ m_out.val[<<"Prefix", TRUE>>] = "true" <=> PrefixSlice = m_in.pattern
        /\ m_out.val[<<"Suffix", TRUE>>] = "true" <=> SuffixSlice = m_in.pattern
        /\ m_out.val[<<"Either", TRUE>>] = "true" <=>
              (PrefixSlice = m_in.pattern \/ SuffixSlice = m_in.pattern)

\* C7's case: a case-sensitive call with flexible_chars = true that does not
\* match, on inputs that match once case sensitivity is off.
C7_Witness ==
    /\ Applied /\ PatternFits /\ m_in.case_sensitive
    /\ Len(m_in.pattern) > 0
    /\ m_out.val[<<"Prefix", TRUE>>] = "false"
    /\ matches_pattern(m_in.pubkey, m_in.pattern, "Prefix", FALSE, TRUE) = "true"

(***************************************************************************)
(* Properties of validate_find (SpecValidate)                              *)
(***************************************************************************)
\* C8 as stated: validate_find accepts a pattern iff its length is 1..=18 bytes
\* and every char is in the base-58 set.
C8_AcceptsIffValid ==
    IsSome(v_out) =>
        ((v_out.val.tag = "Ok")
           <=> /\ StrLen(v_in) >= 1
               /\ StrLen(v_in) <= 18
               /\ \A i \in 1..Len(v_in) : Base58Contains(v_in[i]))

=============================================================================
